---------------------------- MODULE Spec2Model ----------------------------
(***************************************************************************)
(* A model of the query builder andrewpillar/query.                        *)
(*                                                                         *)
(* The repository holds several generations of the builder.  Two of them   *)
(* are modelled here:                                                      *)
(*                                                                         *)
(*   - the clause-list engine (Query.buildInitial / Query.Build with a     *)
(*     value receiver) together with the Expr-based options of clause.go;  *)
(*     its state is the variable q;                                        *)
(*   - the guarded option set of option.go, whose options test the         *)
(*     statement kind before appending; its state is the variable g.       *)
(*                                                                         *)
(* SQL text is a sequence of tokens (strings).  Every string the code      *)
(* writes or concatenates is one token, and a placeholder "?" is always a  *)
(* token of its own, so that scanning the text for "?" is scanning the     *)
(* tokens.  Str flattens a token sequence to the string the code returns.  *)
(***************************************************************************)
EXTENDS Integers, Sequences, FiniteSets, TLC

VARIABLES
    q,        \* the statement under construction (clause-list engine)
    before,   \* q as it was before the last operation
    last,     \* the name of the last operation applied to q
    texts,    \* the results of the Build() calls made on q since it last changed
    g,        \* the statement under construction (guarded option set)
    gbefore,  \* g as it was before the last option
    glast,    \* the last option applied to g, with the statement kind it met
    mem,      \* the backing arrays of the clause and argument slices
    br,       \* a base statement and the statements branched off it
    colopt,   \* a Columns option value: the column slice it holds, and its uses
    failed,   \* whether applying an option has raised a runtime failure
    f,        \* a Query of the field-based builder
    ftexts,   \* the results of the Build() calls made on f
    fhung     \* whether a Build() call on f has entered a loop it never leaves

vars == <<q, before, last, texts, g, gbefore, glast, mem, br, colopt, failed, f, ftexts, fhung>>

varsE == <<q, before, last, texts>>

varsG == <<g, gbefore, glast>>

varsB == <<mem, br>>

varsC == <<colopt, failed>>

varsF == <<f, ftexts, fhung>>

\* what an operation on one builder leaves alone
notE == <<varsG, varsB, varsC, varsF>>

notG == <<varsE, varsB, varsC, varsF>>

notB == <<varsE, varsG, varsC, varsF>>

notC == <<varsE, varsB, varsF>>

notF == <<varsE, varsG, varsB, varsC>>

(***************************************************************************)
(* Bounds of the model.                                                    *)
(***************************************************************************)
\* the longest clause list built in Spec
MaxClauses == 3

\* the longest clause list built in SpecWhere
MaxWhere == 5

\* the most Build() calls made on one statement value
MaxBuilds == 2

\* the longest clause list built in SpecGuarded
MaxGClauses == 3

\* the most arguments bound in SpecGuarded
MaxGArgs == 3

\* the most statements Union is called with
MaxMembers == 3

\* the longest clause list of a base statement in SpecBranch
MaxBase == 3

\* the most statements branched off one base statement
MaxBranches == 2

\* the most applications of one Columns option value
MaxApplied == 2

\* the most WHERE predicates of a Query of the field-based builder
MaxFWheres == 3

\* the most SET items of a Query of the field-based builder
MaxFSets == 2

\* the most Build() calls made on one Query of the field-based builder
MaxFBuilds == 2

\* the most arguments of a Query of the field-based builder
MaxFArgs == 4

(***************************************************************************)
(* Text helpers.                                                           *)
(***************************************************************************)
RECURSIVE Str(_)
\* the string a token sequence stands for
Str(toks) ==
    IF toks = <<>> THEN ""
    ELSE IF Len(toks) = 1 THEN toks[1]
    ELSE LET h == Len(toks) \div 2
         IN  Str(SubSeq(toks, 1, h)) \o Str(SubSeq(toks, h + 1, Len(toks)))

RECURSIVE Join(_, _)
\* strings.Join(items, sep), as tokens
Join(items, sep) ==
    IF items = <<>> THEN <<>>
    ELSE IF Len(items) = 1 THEN <<items[1]>>
    ELSE <<items[1], sep>> \o Join(Tail(items), sep)

RECURSIVE Flatten(_)
\* the concatenation of a sequence of sequences
Flatten(ss) ==
    IF ss = <<>> THEN <<>> ELSE Head(ss) \o Flatten(Tail(ss))

\* strings.Index(s, t) on tokens, 1-based; 0 when t does not occur (-1 in Go)
Index(s, t) ==
    IF \E i \in 1..Len(s) : s[i] = t
      THEN CHOOSE i \in 1..Len(s) : s[i] = t /\ \A j \in 1..(i - 1) : s[j] # t
      ELSE 0

\* the number of tokens of s that are in the set T
Count(s, T) == Cardinality({i \in 1..Len(s) : s[i] \in T})

(***************************************************************************)
(* Statements of the clause-list engine.                                   *)
(***************************************************************************)
\* statement.String() of the stringer, from the line comments
StmtNone == ""

StmtDelete == "DELETE"

StmtInsert == "INSERT"

StmtSelect == "SELECT"

StmtUpdate == "UPDATE"

\* a value is a Query when it has the fields of the struct
IsQuery(e) == "stmt" \in DOMAIN e

(***************************************************************************)
(* Expressions.  An Expr is anything with Build() and Args(); the          *)
(* implementations the options are called with are these.  The field       *)
(* bound lists, for each placeholder of the text in text order, the value  *)
(* that was bound to it; it is a history field, not read by the engine.    *)
(***************************************************************************)
Ident(s) == [type |-> "ident", text |-> <<s>>, args |-> <<>>]

Lit(toks) == [type |-> "lit", text |-> toks, args |-> <<>>]

Arg(v) == [type |-> "arg", text |-> <<"?">>, args |-> <<v>>]

\* List(v1, ..., vn): a parenthesised list of placeholders
List(vals) ==
    [type |-> "list",
     text |-> <<"(">> \o Join([i \in 1..Len(vals) |-> "?"], ", ") \o <<")">>,
     args |-> vals]

\* Columns(c1, ..., cn) as leading expression
Columns(cols) == [type |-> "columns", text |-> Join(cols, ", "), args |-> <<>>]

RECURSIVE Build(_)
RECURSIVE buildInitial(_)
RECURSIVE Marks(_)

\* Expr.Build()
ExprBuild(e) == IF IsQuery(e) THEN Build(e) ELSE e.text

\* Expr.Args()
ExprArgs(e) == e.args

\* the values bound to the placeholders of an expression's text, in text order
ExprMarks(e) == IF IsQuery(e) THEN Marks(e) ELSE e.args

(***************************************************************************)
(* Clauses (clause.go).                                                    *)
(***************************************************************************)
FromKind == "FROM"

LimitKind == "LIMIT"

OffsetKind == "OFFSET"

OrderKind == "ORDER BY"

UnionKind == "UNION"

ValuesKind == "VALUES"

WhereKind == "WHERE"

ReturningKind == "RETURNING"

SetKind == "SET"

\* the nil Clause
NilClause == [kind |-> "nil"]

\* Clause.Build()
ClauseBuild(cl) ==
    CASE cl.kind = FromKind -> <<cl.table>>
      [] cl.kind = LimitKind -> <<ToString(cl.n)>>
      [] cl.kind = OffsetKind -> <<ToString(cl.n)>>
      [] cl.kind = OrderKind -> Join(cl.cols, ", ") \o <<" ", cl.dir>>
      [] cl.kind = ReturningKind -> Join(cl.cols, ", ")
      [] cl.kind = SetKind -> <<cl.col, " = ">> \o ExprBuild(cl.expr)
      [] cl.kind = UnionKind -> buildInitial(cl.q)
      [] cl.kind = ValuesKind -> <<"(">> \o Join(cl.items, ", ") \o <<")">>
      [] cl.kind = WhereKind ->
            ExprBuild(cl.left) \o <<" ", cl.op, " ">> \o ExprBuild(cl.right)

conjValuesBySpace(cl) ==
    IF cl = NilClause THEN ""
    ELSE CASE cl.kind = WhereKind -> " " \o cl.conjunction \o " "
           [] cl.kind = UnionKind -> " " \o UnionKind \o " "
           [] cl.kind = SetKind -> ", "
           [] OTHER -> " "

\* Query.conj
conj(cl) ==
    IF cl = NilClause THEN ""
    ELSE CASE cl.kind = WhereKind -> " " \o cl.conjunction \o " "
           [] cl.kind = UnionKind -> " " \o UnionKind \o " "
           [] cl.kind \in {SetKind, ValuesKind} -> ", "
           [] OTHER -> " "


(***************************************************************************)
(* The render engine (Query.buildInitial, Query.Build).                    *)
(***************************************************************************)
\* the statement keyword, the table and the leading expressions
Header(qq) ==
    <<qq.stmt>>
    \o (CASE qq.stmt = StmtInsert -> <<" INTO ", qq.table>>
          [] qq.stmt = StmtUpdate -> <<" ", qq.table, " ">>
          [] qq.stmt = StmtDelete -> <<" FROM ", qq.table, " ">>
          [] OTHER -> <<>>)
    \o Flatten([i \in 1..Len(qq.exprs) |->
                  <<" ">>
                  \o (IF qq.stmt = StmtInsert THEN <<"(">> ELSE <<>>)
                  \o ExprBuild(qq.exprs[i])
                  \o (IF qq.stmt = StmtInsert THEN <<")">> ELSE <<>>)
                  \o <<" ">>])

KindsNeverRecorded(qq, n) == {}

\* the map clauses after the first n iterations of the loop: the kinds written
KindsWritten(qq, n) ==
    {qq.clauses[j].kind : j \in 1..n} \ {UnionKind}

WrapIgnoringPrev(prev, cl, next) == conj(next) # conj(cl)

WrapNever(prev, cl, next) == FALSE

WrapAgainstPrev(prev, cl, next) ==
    /\ prev # NilClause
    /\ prev.kind = cl.kind
    /\ conj(next) # conj(prev)

\* wrap, for a clause cl followed by a clause next of its kind: whether the
\* conjunction is written between a closing and an opening parenthesis
Wrap(prev, cl, next) ==
    /\ prev # NilClause
    /\ prev.kind = cl.kind
    /\ conj(next) # conj(cl)

\* what iteration i of the loop over q.clauses writes; seen is the map clauses
Iteration(qq, i, seen) ==
    LET end == Len(qq.clauses)
        cl == qq.clauses[i]
        prev == IF i > 1 THEN qq.clauses[i - 1] ELSE NilClause
        next == IF i < end THEN qq.clauses[i + 1] ELSE NilClause
        kind == cl.kind
        wrap == Wrap(prev, cl, next)
    IN  (IF kind # UnionKind /\ kind \notin seen
           THEN <<kind \o " ">> \o (IF kind = WhereKind THEN <<"(">> ELSE <<>>)
           ELSE <<>>)
        \o ClauseBuild(cl)
        \o (IF next # NilClause
              THEN IF next.kind = kind
                     THEN (IF wrap THEN <<")">> ELSE <<>>)
                          \o <<conj(next)>>
                          \o (IF wrap THEN <<"(">> ELSE <<>>)
                     ELSE (IF kind = WhereKind THEN <<")">> ELSE <<>>) \o <<" ">>
              ELSE <<>>)
        \o (IF i = end /\ kind = WhereKind THEN <<")">> ELSE <<>>)

RECURSIVE BufAfter(_, _)
\* the buffer after the first n iterations of the loop
BufAfter(qq, n) ==
    IF n = 0 THEN Header(qq)
    ELSE BufAfter(qq, n - 1) \o Iteration(qq, n, KindsWritten(qq, n - 1))

\* Query.buildInitial
buildInitial(qq) == BufAfter(qq, Len(qq.clauses))

\* "$" followed by strconv.AppendInt(param, 10)
Marker(param) == "$" \o ToString(param)

RECURSIVE BuildLoop(_, _, _)
\* the loop of Query.Build: s is the text left, query the text written
BuildLoop(s, query, param) ==
    LET i == Index(s, "?")
    IN  IF i = 0 THEN query \o s
        ELSE BuildLoop(SubSeq(s, i + 1, Len(s)),
                       query \o SubSeq(s, 1, i - 1) \o <<Marker(param + 1)>>,
                       param + 1)

BuildKeepingParam(qq) ==
    BuildLoop(buildInitial(qq), <<>>, Len(texts) * Len(qq.args))

\* Query.Build
Build(qq) == BuildLoop(buildInitial(qq), <<>>, 0)

\* Query.Args
Args(qq) == qq.args

\* the values bound to the placeholders of a statement's text, in text order
Marks(qq) ==
    Flatten([i \in 1..Len(qq.exprs) |-> ExprMarks(qq.exprs[i])])
    \o Flatten([i \in 1..Len(qq.clauses) |-> qq.clauses[i].bound])

(***************************************************************************)
(* Constructors (Select, Insert, Update, Delete, Union).  The options a    *)
(* constructor is given are applied one after the other, as the actions    *)
(* below apply them.                                                       *)
(***************************************************************************)
Delete(table) ==
    [stmt |-> StmtDelete, table |-> table, exprs |-> <<>>,
     clauses |-> <<>>, args |-> <<>>]

Insert(table, expr) ==
    [stmt |-> StmtInsert, table |-> table, exprs |-> <<expr>>,
     clauses |-> <<>>, args |-> <<>>]

Select(expr) ==
    [stmt |-> StmtSelect, table |-> "", exprs |-> <<expr>>,
     clauses |-> <<>>, args |-> <<>>]

Update(table) ==
    [stmt |-> StmtUpdate, table |-> table, exprs |-> <<>>,
     clauses |-> <<>>, args |-> <<>>]

RECURSIVE UnionArgsInFront(_, _)
UnionArgsInFront(queries, q0) ==
    IF queries = <<>> THEN q0
    ELSE UnionArgsInFront(Tail(queries),
                          [q0 EXCEPT
                             !.args = Head(queries).args \o @,
                             !.clauses = Append(@, [kind |-> UnionKind,
                                                    q |-> Head(queries),
                                                    bound |-> <<>>])])

RECURSIVE UnionFrom(_, _)
\* the loop of Union over the queries, from q0
UnionFrom(queries, q0) ==
    IF queries = <<>> THEN q0
    ELSE UnionFrom(Tail(queries),
                   [q0 EXCEPT
                      !.args = @ \o Head(queries).args,
                      !.clauses = Append(@, [kind |-> UnionKind,
                                             q |-> Head(queries),
                                             bound |-> Marks(Head(queries))])])

Union(queries) ==
    UnionFrom(queries, [stmt |-> StmtNone, table |-> "", exprs |-> <<>>,
                        clauses |-> <<>>, args |-> <<>>])

(***************************************************************************)
(* Options of clause.go.  Each takes the statement last and returns the    *)
(* statement it yields.                                                    *)
(***************************************************************************)
realWhere(conjunction, left, op, right, qq) ==
    LET args == ExprArgs(left) \o ExprArgs(right)
        right1 == IF IsQuery(right)
                    THEN Lit(<<"(">> \o buildInitial(right) \o <<")">>)
                    ELSE right
    IN  [qq EXCEPT
           !.clauses = Append(@, [kind |-> WhereKind,
                                  conjunction |-> conjunction,
                                  op |-> op,
                                  left |-> left,
                                  right |-> right1,
                                  bound |-> ExprMarks(left) \o ExprMarks(right)]),
           !.args = @ \o args]

Where(col, op, expr, qq) == realWhere("AND", Ident(col), op, expr, qq)

OrWhere(col, op, expr, qq) == realWhere("OR", Ident(col), op, expr, qq)

From(table, qq) ==
    [qq EXCEPT !.clauses = Append(@, [kind |-> FromKind, table |-> table,
                                      bound |-> <<>>])]

Limit(n, qq) ==
    [qq EXCEPT !.clauses = Append(@, [kind |-> LimitKind, n |-> n,
                                      bound |-> <<>>])]

Offset(n, qq) ==
    [qq EXCEPT !.clauses = Append(@, [kind |-> OffsetKind, n |-> n,
                                      bound |-> <<>>])]

OrderAsc(cols, qq) ==
    [qq EXCEPT !.clauses = Append(@, [kind |-> OrderKind, cols |-> cols,
                                      dir |-> "ASC", bound |-> <<>>])]

OrderDesc(cols, qq) ==
    [qq EXCEPT !.clauses = Append(@, [kind |-> OrderKind, cols |-> cols,
                                      dir |-> "DESC", bound |-> <<>>])]

Returning(cols, qq) ==
    [qq EXCEPT !.clauses = Append(@, [kind |-> ReturningKind, cols |-> cols,
                                      bound |-> <<>>])]

Set(col, expr, qq) ==
    IF qq.stmt = StmtUpdate
      THEN [qq EXCEPT
              !.clauses = Append(@, [kind |-> SetKind, col |-> col,
                                     expr |-> Lit(ExprBuild(expr)),
                                     bound |-> ExprMarks(expr)]),
              !.args = @ \o ExprArgs(expr)]
      ELSE qq

Values(vals, qq) ==
    LET items == [i \in 1..Len(vals) |-> "?"]
    IN  [qq EXCEPT
           !.clauses = Append(@, [kind |-> ValuesKind, items |-> items,
                                  args |-> vals, bound |-> vals]),
           !.args = @ \o vals]

(***************************************************************************)
(* The guarded option set (option.go).  A statement holds its kind, its    *)
(* clauses and its arguments; clauses are the structs column, table, list  *)
(* and portion the options fill in.                                        *)
(***************************************************************************)
selectStmt == "select"

insertStmt == "insert"

updateStmt == "update"

deleteStmt == "delete"

GStmts == {selectStmt, insertStmt, updateStmt, deleteStmt}

\* the statement a constructor starts from
GNew(stmt) == [stmt |-> stmt, clauses |-> <<>>, args |-> <<>>]

\* expand(vals...)
expand(vals) ==
    <<"(">> \o Join([i \in 1..Len(vals) |-> "?"], ", ") \o <<")">>

\* realPortion of option.go
GrealPortion(kind, n, gg) ==
    [gg EXCEPT !.clauses = Append(@, [type |-> "portion", clauseKind |-> kind,
                                      n |-> n])]

\* realWhere of option.go
GrealWhere(conjunction, col, op, val, gg) ==
    [gg EXCEPT !.clauses = Append(@, [type |-> "column", col |-> col, op |-> op,
                                      val |-> val, conjunction |-> conjunction,
                                      clauseKind |-> "whereKind"])]

GFromUnguarded(item, gg) ==
    [gg EXCEPT !.clauses = Append(@, [type |-> "table", clauseKind |-> "fromKind",
                                      item |-> item])]

\* what Columns leaves in the slice cols on an INSERT statement:
\* cols[0] = "(" + cols[0] and cols[end] = cols[end] + ")"
Parenthesised(cs) ==
    [i \in 1..Len(cs) |->
       (IF i = 1 THEN "(" ELSE "") \o cs[i] \o (IF i = Len(cs) THEN ")" ELSE "")]

\* the list clauses of a statement whose items are the slice cols read the
\* array as it is now
Aliased(gg, array) ==
    [gg EXCEPT !.clauses =
       [i \in 1..Len(@) |->
          IF @[i].clauseKind = "columnsKind"
            THEN [@[i] EXCEPT !.items = array] ELSE @[i]]]

\* Columns of option.go, for an option value holding the slice array: the
\* statement returned, the array afterwards, and whether indexing cols[0]
\* raised a runtime failure (no statement is returned then)
GColumns(array, gg) ==
    IF gg.stmt = insertStmt /\ array = <<>>
      THEN [panic |-> TRUE, array |-> array, g |-> gg]
      ELSE LET arr == IF gg.stmt = insertStmt THEN Parenthesised(array) ELSE array
           IN  [panic |-> FALSE,
                array |-> arr,
                g |-> [Aliased(gg, arr) EXCEPT
                         !.clauses = Append(@, [type |-> "list",
                                                clauseKind |-> "columnsKind",
                                                items |-> arr])]]

\* From of option.go
GFrom(item, gg) ==
    IF gg.stmt = selectStmt \/ gg.stmt = deleteStmt
      THEN [gg EXCEPT !.clauses = Append(@, [type |-> "table",
                                             clauseKind |-> "fromKind",
                                             item |-> item])]
      ELSE gg

\* Into of option.go
GInto(item, gg) ==
    IF gg.stmt = insertStmt
      THEN [gg EXCEPT !.clauses = Append(@, [type |-> "table",
                                             clauseKind |-> "intoKind",
                                             item |-> item])]
      ELSE gg

\* Limit of option.go
GLimit(n, gg) == GrealPortion("limitKind", n, gg)

\* Offset of option.go
GOffset(n, gg) == GrealPortion("offsetKind", n, gg)

\* Returning of option.go
GReturning(cols, gg) ==
    IF gg.stmt = insertStmt \/ gg.stmt = updateStmt \/ gg.stmt = deleteStmt
      THEN [gg EXCEPT !.clauses = Append(@, [type |-> "list",
                                             clauseKind |-> "returningKind",
                                             items |-> cols])]
      ELSE gg

\* SetRaw of option.go
GSetRaw(col, val, gg) ==
    IF gg.stmt = updateStmt
      THEN [gg EXCEPT !.clauses = Append(@, [type |-> "column", col |-> col,
                                             op |-> "=", val |-> val,
                                             conjunction |-> ",",
                                             clauseKind |-> "setKind"])]
      ELSE gg

\* Set of option.go: the value is appended, then SetRaw(col, "?") applied
GSet(col, val, gg) ==
    GSetRaw(col, <<"?">>, [gg EXCEPT !.args = Append(@, val)])

\* Table of option.go
GTable(item, gg) ==
    IF gg.stmt = updateStmt
      THEN [gg EXCEPT !.clauses = Append(@, [type |-> "table",
                                             clauseKind |-> "noneKind",
                                             item |-> item])]
      ELSE gg

\* Values of option.go
GValues(vals, gg) ==
    IF gg.stmt = insertStmt
      THEN [gg EXCEPT
              !.args = @ \o vals,
              !.clauses = Append(@, [type |-> "list",
                                     clauseKind |-> "valuesKind",
                                     items |-> [i \in 1..Len(vals) |-> "?"]])]
      ELSE gg

\* Where of option.go
GWhere(col, op, vals, gg) ==
    IF Len(vals) = 0 THEN gg
    ELSE GrealWhere("AND", col, op,
                    IF Len(vals) > 1 \/ op = "IN" THEN expand(vals) ELSE <<"?">>,
                    [gg EXCEPT !.args = @ \o vals])

\* OrWhere of option.go
GOrWhere(col, op, vals, gg) ==
    IF Len(vals) = 0 THEN gg
    ELSE GrealWhere("OR", col, op,
                    IF Len(vals) > 1 THEN expand(vals) ELSE <<"?">>,
                    [gg EXCEPT !.args = @ \o vals])

(***************************************************************************)
(* Slices.  A Query is passed and returned by value, and its fields        *)
(* clauses and args are slices: a pointer to a backing array, a length     *)
(* and a capacity.  Copying the Query copies the three words, not the      *)
(* array.  mem holds the arrays, one list for the clause arrays and one    *)
(* for the argument arrays; pointer 0 is the nil slice.                    *)
(***************************************************************************)
NilSlice == [ptr |-> 0, len |-> 0, cap |-> 0]

\* the zero Query, with nil slices
HeapZero ==
    [stmt |-> StmtNone, table |-> "", exprs |-> <<>>,
     clauses |-> NilSlice, args |-> NilSlice]

\* the elements of a slice
Elems(arrays, sl) ==
    IF sl.len = 0 THEN <<>> ELSE SubSeq(arrays[sl.ptr], 1, sl.len)

\* a Query with its slices read out
View(m, s) ==
    [stmt |-> s.stmt, table |-> s.table, exprs |-> s.exprs,
     clauses |-> Elems(m.clauses, s.clauses),
     args |-> Elems(m.args, s.args)]

\* the capacities append may give a slice that has to grow to hold needed
\* elements: the exact fit, or the amortised growth of the Go runtime
\* (needed when it exceeds twice the old capacity, else twice the old one)
GrownCaps(oldcap, needed) ==
    {needed, IF needed > 2 * oldcap THEN needed ELSE 2 * oldcap}

\* append(sl, elems...): the arrays and the slice it can return, with zero
\* for the cells of a new array that are not written
AppendToSlice(arrays, sl, elems, zero) ==
    LET needed == sl.len + Len(elems)
    IN  IF elems = <<>> THEN {[arrays |-> arrays, slice |-> sl]}
        ELSE IF needed <= sl.cap
          THEN {[arrays |-> [arrays EXCEPT ![sl.ptr] =
                               [i \in 1..sl.cap |->
                                  IF i > sl.len /\ i <= needed
                                    THEN elems[i - sl.len] ELSE @[i]]],
                 slice |-> [sl EXCEPT !.len = needed]]}
          ELSE {[arrays |-> Append(arrays,
                               [i \in 1..c |->
                                  IF i <= sl.len THEN arrays[sl.ptr][i]
                                  ELSE IF i <= needed THEN elems[i - sl.len]
                                  ELSE zero]),
                 slice |-> [ptr |-> Len(arrays) + 1, len |-> needed, cap |-> c]]
                 : c \in GrownCaps(sl.cap, needed)}

(***************************************************************************)
(* The field-based builder (query.go).                                     *)
(***************************************************************************)
\* the zero Query of query.go
FZero ==
    [stmt |-> "", table |-> "", cols |-> <<>>, wheres |-> <<>>, sets |-> <<>>,
     order |-> [cols |-> <<>>, dir |-> "ASC"], limit |-> 0, offset |-> 0,
     ret |-> <<>>, args |-> <<>>, bind |-> 0]

\* the statements of query.go: asc, desc, _select, _insert, _update and
\* _delete share one iota, so that no statement is statement(0)
Fselect == "_select"

Finsert == "_insert"

Fupdate == "_update"

Fdelete == "_delete"

\* the nil interface value, and a value given as text
NilVal == [nil |-> TRUE, text |-> <<>>]

RawVal(toks) == [nil |-> FALSE, text |-> toks]

\* Select, Insert, Update, Delete of query.go, before their options
FNew(stmt) == [FZero EXCEPT !.stmt = stmt]

\* order.isZero
OrderIsZero(o) == Len(o.cols) = 0 /\ o.dir = "ASC"

\* Query.isZero
FIsZero(qq) ==
    /\ qq.stmt = ""
    /\ qq.table = ""
    /\ Len(qq.cols) = 0
    /\ Len(qq.wheres) = 0
    /\ Len(qq.sets) = 0
    /\ OrderIsZero(qq.order)
    /\ qq.limit = 0
    /\ qq.offset = 0
    /\ Len(qq.ret) = 0
    /\ Len(qq.args) = 0

\* the options of the field-based builder
FColumns(cs, qq) == [qq EXCEPT !.cols = cs]

FLimit(l, qq) == [qq EXCEPT !.limit = l]

FOffset(o, qq) == [qq EXCEPT !.offset = o]

FOrderAsc(cs, qq) == [qq EXCEPT !.order = [cols |-> cs, dir |-> "ASC"]]

FOrderDesc(cs, qq) == [qq EXCEPT !.order = [cols |-> cs, dir |-> "DESC"]]

FReturning(cs, qq) == [qq EXCEPT !.ret = cs]

FSetRaw(col, val, qq) ==
    IF qq.stmt # Fupdate THEN qq
    ELSE [qq EXCEPT !.sets = Append(@, [col |-> col, val |-> val])]

FSet(col, val, qq) ==
    [FSetRaw(col, NilVal, qq) EXCEPT !.args = Append(@, val)]

FTable(table, qq) == [qq EXCEPT !.table = table]

FValues(vals, qq) ==
    IF qq.stmt = Finsert THEN [qq EXCEPT !.args = vals] ELSE qq

\* the operators for which Where appends its value to the arguments
BindingOps == {"=", "!=", ">", ">=", "<", "<=", "LIKE"}

FWhere(col, op, val, qq) ==
    [qq EXCEPT
       !.wheres = Append(@, [col |-> col, op |-> op, val |-> NilVal,
                             cat |-> " AND ", query |-> FZero]),
       !.args = IF op \in BindingOps THEN Append(@, val) ELSE @]

FWhereEq(col, val, qq) == FWhere(col, "=", val, qq)

FWhereIs(col, val, qq) == FWhere(col, "IS", val, qq)

FWhereIn(col, vals, qq) ==
    IF Len(vals) = 0 THEN qq
    ELSE [qq EXCEPT
            !.wheres = Append(@, [col |-> col, op |-> "IN", val |-> NilVal,
                                  cat |-> " AND ", query |-> FZero]),
            !.args = @ \o vals]

FWhereInQuery(col, q2, qq) ==
    [qq EXCEPT
       !.wheres = Append(@, [col |-> col, op |-> "IN", val |-> NilVal,
                             cat |-> " AND ", query |-> q2]),
       !.args = @ \o q2.args]

\* an option given by name and arguments, applied to a Query
FOpt(o, qq) ==
    CASE o.name = "WhereEq" -> FWhereEq(o.col, o.val, qq)
      [] o.name = "WhereIs" -> FWhereIs(o.col, o.val, qq)
      [] o.name = "WhereIn" -> FWhereIn(o.col, o.vals, qq)
      [] o.name = "WhereInQuery" -> FWhereInQuery(o.col, o.query, qq)

RECURSIVE FOpts(_, _)
\* for _, opt := range opts { q = opt(q) }
FOpts(opts, qq) ==
    IF opts = <<>> THEN qq ELSE FOpts(Tail(opts), FOpt(Head(opts), qq))

\* Or(opts...)
FOr(opts, qq) ==
    LET l == Len(qq.wheres)
        q1 == FOpts(opts, qq)
        diff == Len(q1.wheres) - l
    IN  IF l = diff THEN q1
        ELSE [q1 EXCEPT !.wheres =
                [i \in 1..Len(@) |->
                   IF i - 1 >= l THEN [@[i] EXCEPT !.cat = " OR "] ELSE @[i]]]

\* param(i)
Param(i) == Marker(i)

\* strings.Join of texts
JoinTexts(ts, sep) ==
    Flatten([k \in 1..Len(ts) |-> ts[k] \o (IF k < Len(ts) THEN <<sep>> ELSE <<>>)])

\* what a call of Build or buildWheres yields: the text written, the bind
\* counter afterwards, and whether the call never returns
Built(text, bind) == [text |-> text, bind |-> bind, hangs |-> FALSE]

Hung == [text |-> <<>>, bind |-> 0, hangs |-> TRUE]

RECURSIVE FBuildFrom(_)
RECURSIVE FWhereLoop(_, _, _, _, _)

\* the value of the predicate w of qq, the bind counter being bind.  The
\* loop "for q.bind != len(q.args)" of an IN predicate is left only when the
\* counter, counting up, meets the number of arguments
FWhereVal(qq, w, bind) ==
    IF ~w.val.nil THEN Built(w.val.text, bind)
    ELSE IF ~FIsZero(w.query)
      THEN LET r == FBuildFrom([w.query EXCEPT !.bind = @ + bind])
           IN  IF r.hangs THEN Hung
               ELSE Built(<<"(">> \o r.text \o <<")">>, r.bind)
    ELSE IF w.op = "IN"
      THEN IF bind > Len(qq.args) THEN Hung
           ELSE Built(<<"(">>
                      \o Join([k \in 1..(Len(qq.args) - bind) |-> Param(bind + k)], ", ")
                      \o <<")">>,
                      Len(qq.args))
    ELSE Built(<<Param(bind + 1)>>, bind + 1)

\* the loop of buildWheres from predicate i on: wheres the predicates of the
\* group being collected, buf the text written
FWhereLoop(qq, i, bind, wheres, buf) ==
    LET end == Len(qq.wheres)
        w == qq.wheres[i]
        v == FWhereVal(qq, w, bind)
        where == <<w.col, " ", w.op, " ">> \o v.text
        wheres1 == Append(wheres, where)
    IN  IF v.hangs THEN Hung
        ELSE IF i # end
          THEN IF qq.wheres[i + 1].cat # w.cat
                 THEN FWhereLoop(qq, i + 1, v.bind, <<>>,
                                 buf \o <<"(">> \o JoinTexts(wheres1, w.cat)
                                     \o <<")", qq.wheres[i + 1].cat>>)
                 ELSE FWhereLoop(qq, i + 1, v.bind, wheres1, buf)
        ELSE Built(buf \o JoinTexts(wheres1, w.cat), v.bind)

\* Query.buildWheres
buildWheres(qq, bind) ==
    IF Len(qq.wheres) = 0 THEN Built(<<>>, bind)
    ELSE LET r == FWhereLoop(qq, 1, bind, <<>>, <<>>)
         IN  IF r.hangs THEN Hung ELSE Built(<<" WHERE ">> \o r.text, r.bind)

\* Query.buildReturning
buildReturning(qq) ==
    IF Len(qq.ret) = 0 THEN <<>> ELSE <<" RETURNING ">> \o Join(qq.ret, ", ")

\* the LIMIT and OFFSET parts of Build
LimitOffset(qq) ==
    (IF qq.limit > 0 THEN <<" LIMIT ", ToString(qq.limit)>> ELSE <<>>)
    \o (IF qq.offset > 0 THEN <<" OFFSET ", ToString(qq.offset)>> ELSE <<>>)

\* the number of sets among the first i that have no value of their own
NilSets(qq, i) == Cardinality({j \in 1..i : qq.sets[j].val.nil})

\* sets[i] of Build, the bind counter being bind before the loop
SetText(qq, i, bind) ==
    <<qq.sets[i].col, " = ">>
    \o (IF qq.sets[i].val.nil THEN <<Param(bind + NilSets(qq, i))>>
        ELSE qq.sets[i].val.text)

\* Query.Build of query.go, on a Query whose bind counter is qq.bind
FBuildFrom(qq) ==
    CASE qq.stmt = Fselect ->
           LET w == buildWheres(qq, qq.bind)
           IN  IF w.hangs THEN Hung
               ELSE Built(<<"SELECT ">> \o Join(qq.cols, ", ") \o <<" FROM ", qq.table>>
                          \o w.text
                          \o (IF ~OrderIsZero(qq.order)
                                THEN <<" ORDER BY ">> \o Join(qq.order.cols, ", ")
                                     \o <<" ", qq.order.dir>>
                                ELSE <<>>)
                          \o LimitOffset(qq),
                          w.bind)
      [] qq.stmt = Finsert ->
           Built(<<"INSERT INTO ", qq.table, " (">> \o Join(qq.cols, ", ")
                 \o <<") VALUES (">>
                 \o Join([i \in 1..Len(qq.cols) |-> Param(i)], ", ")
                 \o <<")">> \o buildReturning(qq),
                 qq.bind)
      [] qq.stmt = Fupdate ->
           LET b == qq.bind + NilSets(qq, Len(qq.sets))
               w == buildWheres(qq, b)
           IN  IF w.hangs THEN Hung
               ELSE Built(<<"UPDATE ", qq.table, " SET ">>
                          \o JoinTexts([i \in 1..Len(qq.sets) |-> SetText(qq, i, qq.bind)], ", ")
                          \o w.text \o LimitOffset(qq) \o buildReturning(qq),
                          w.bind)
      [] qq.stmt = Fdelete ->
           LET w == buildWheres(qq, qq.bind)
           IN  IF w.hangs THEN Hung
               ELSE Built(<<"DELETE FROM ", qq.table>> \o w.text \o LimitOffset(qq),
                          w.bind)
      [] OTHER -> Built(<<>>, qq.bind)

\* Query.Build of query.go
FBuild(qq) == FBuildFrom(qq)

(***************************************************************************)
(* Inputs.  The i-th clause of a statement is given the i-th column name   *)
(* and each bound value is new to the statement, so that predicates and    *)
(* arguments can be told apart in the text and in Args().                  *)
(***************************************************************************)
ColumnNames == <<"a", "b", "c", "d", "e", "f", "g", "h">>

NewCol(qq) == ColumnNames[Len(qq.clauses) + 1]

NewVal(qq) == Len(qq.args) + 1

\* SELECT x FROM u WHERE (y = ?), binding 9
Sub1 == Where("y", "=", Arg(9), From("u", Select(Columns(<<"x">>))))

\* SELECT id FROM w WHERE (z = ?), binding 8
Sub2 == Where("z", "=", Arg(8), From("w", Select(Columns(<<"id">>))))

\* the statements the constructors return before any option is applied
Constructed ==
    { Select(Columns(<<"*">>)),
      Select(Arg(0)),
      Insert("t", Columns(<<"k", "l">>)),
      Update("t"),
      Delete("t"),
      Union(<<Sub1, Sub2>>) }

\* the right-hand expressions Where and OrWhere are called with
WhereExprs(qq) == {Arg(NewVal(qq)), Sub1}

\* the operator a right-hand expression is used with
OpFor(e) == IF IsQuery(e) THEN "IN" ELSE "="

\* the expressions Set is called with
SetExprs(qq) == {Arg(NewVal(qq)), Lit(<<"NOW()">>), Sub1}

\* the value lists Where and OrWhere of option.go are called with
GValLists(gg) ==
    { <<>>, <<NewVal(gg)>>, <<NewVal(gg), NewVal(gg) + 1>> }

(***************************************************************************)
(* Build has a value receiver and buildInitial only reads the clause and   *)
(* argument slices: the caller's Query after the call is the Query before. *)
(***************************************************************************)
Receiver(qq) == qq

(***************************************************************************)
(* Actions of the clause-list engine.                                      *)
(***************************************************************************)
\* an option has been applied to q, giving q2
Apply(name, q2) ==
    /\ Len(q.clauses) < MaxClauses
    /\ q' = q2
    /\ before' = q
    /\ last' = name
    /\ texts' = <<>>
    /\ UNCHANGED notE

DoWhere == \E e \in WhereExprs(q) : Apply("Where", Where(NewCol(q), OpFor(e), e, q))

DoOrWhere == \E e \in WhereExprs(q) : Apply("OrWhere", OrWhere(NewCol(q), OpFor(e), e, q))

DoFrom == Apply("From", From("t", q))

DoLimit == Apply("Limit", Limit(5, q))

DoOffset == Apply("Offset", Offset(2, q))

DoOrderAsc == Apply("OrderAsc", OrderAsc(<<NewCol(q)>>, q))

DoOrderDesc == Apply("OrderDesc", OrderDesc(<<NewCol(q)>>, q))

DoReturning == Apply("Returning", Returning(<<NewCol(q)>>, q))

DoSet == \E e \in SetExprs(q) : Apply("Set", Set(NewCol(q), e, q))

DoValues == Apply("Values", Values(<<NewVal(q), NewVal(q) + 1>>, q))

\* q.Build() is called and its result kept
DoBuild ==
    /\ Len(texts) < MaxBuilds
    /\ texts' = Append(texts, Build(q))
    /\ q' = Receiver(q)
    /\ before' = q
    /\ last' = "Build"
    /\ UNCHANGED notE

\* the guarded option set at rest
GIdle == GNew(selectStmt)

\* no slice has been allocated and no statement branched
InitB0 ==
    /\ mem = [clauses |-> <<>>, args |-> <<>>]
    /\ br = [base |-> HeapZero, want |-> Union(<<>>), made |-> <<>>]

\* no Columns option value is held
InitC0 ==
    /\ colopt = [given |-> <<>>, array |-> <<>>, results |-> <<>>]
    /\ failed = FALSE

\* the field-based builder at rest
InitF0 ==
    /\ f = FZero
    /\ ftexts = <<>>
    /\ fhung = FALSE

InitG0 ==
    /\ g = GIdle
    /\ gbefore = GIdle
    /\ glast = [op |-> "new", stmt |-> selectStmt]

Init ==
    /\ q \in Constructed
    /\ before = q
    /\ last = "new"
    /\ texts = <<>>
    /\ InitG0
    /\ InitB0
    /\ InitC0
    /\ InitF0

Next ==
    \/ DoWhere
    \/ DoOrWhere
    \/ DoFrom
    \/ DoLimit
    \/ DoOffset
    \/ DoOrderAsc
    \/ DoOrderDesc
    \/ DoReturning
    \/ DoSet
    \/ DoValues
    \/ DoBuild

Spec == Init /\ [][Next]_vars

(***************************************************************************)
(* Chains of Where and OrWhere: longer clause lists, built from Where,     *)
(* OrWhere, From and Limit on a bound argument.                            *)
(***************************************************************************)
ApplyW(name, q2) ==
    /\ Len(q.clauses) < MaxWhere
    /\ q' = q2
    /\ before' = q
    /\ last' = name
    /\ texts' = <<>>
    /\ UNCHANGED notE

ChainWhere == ApplyW("Where", Where(NewCol(q), "=", Arg(NewVal(q)), q))

ChainOrWhere == ApplyW("OrWhere", OrWhere(NewCol(q), "=", Arg(NewVal(q)), q))

ChainFrom == ApplyW("From", From("t", q))

ChainLimit == ApplyW("Limit", Limit(5, q))

InitWhere ==
    /\ q \in {Select(Columns(<<"*">>)), Delete("t")}
    /\ before = q
    /\ last = "new"
    /\ texts = <<>>
    /\ InitG0
    /\ InitB0
    /\ InitC0
    /\ InitF0

NextWhere ==
    \/ ChainWhere
    \/ ChainOrWhere
    \/ ChainFrom
    \/ ChainLimit

SpecWhere == InitWhere /\ [][NextWhere]_vars

(***************************************************************************)
(* Actions of the guarded option set.                                      *)
(***************************************************************************)
\* an option has been applied to g, giving g2
GApply(name, g2) ==
    /\ Len(g.clauses) < MaxGClauses
    /\ Len(g.args) < MaxGArgs
    /\ g' = g2
    /\ gbefore' = g
    /\ glast' = [op |-> name, stmt |-> g.stmt]
    /\ UNCHANGED notG

OptFrom == GApply("From", GFrom("t", g))

OptInto == GApply("Into", GInto("t", g))

OptLimit == GApply("Limit", GLimit(5, g))

OptOffset == GApply("Offset", GOffset(2, g))

OptReturning == GApply("Returning", GReturning(<<NewCol(g)>>, g))

OptSet == GApply("Set", GSet(NewCol(g), NewVal(g), g))

OptSetRaw == GApply("SetRaw", GSetRaw(NewCol(g), <<"NOW()">>, g))

OptTable == GApply("Table", GTable("t", g))

OptValues == GApply("Values", GValues(<<NewVal(g)>>, g))

OptWhere ==
    \E vals \in GValLists(g), op \in {"=", "IN"} :
        GApply("Where", GWhere(NewCol(g), op, vals, g))

OptOrWhere ==
    \E vals \in GValLists(g), op \in {"=", "IN"} :
        GApply("OrWhere", GOrWhere(NewCol(g), op, vals, g))

InitGuarded ==
    /\ q = Select(Columns(<<"*">>))
    /\ before = q
    /\ last = "new"
    /\ texts = <<>>
    /\ g \in {GNew(s) : s \in GStmts}
    /\ gbefore = g
    /\ glast = [op |-> "new", stmt |-> g.stmt]
    /\ InitB0
    /\ InitC0
    /\ InitF0

NextGuarded ==
    \/ OptFrom
    \/ OptInto
    \/ OptLimit
    \/ OptOffset
    \/ OptReturning
    \/ OptSet
    \/ OptSetRaw
    \/ OptTable
    \/ OptValues
    \/ OptWhere
    \/ OptOrWhere

SpecGuarded == InitGuarded /\ [][NextGuarded]_vars

(***************************************************************************)
(* Unions.  Union is called with one more statement each time; q is the    *)
(* statement it returns.                                                   *)
(***************************************************************************)
\* SELECT * FROM v WHERE (a = ? OR b = ?), binding 1 and 2
Sub3 ==
    OrWhere("b", "=", Arg(2),
            Where("a", "=", Arg(1), From("v", Select(Columns(<<"*">>)))))

\* INSERT INTO t (k, l) VALUES (?, ?), binding 3 and 4
Sub4 == Values(<<3, 4>>, Insert("t", Columns(<<"k", "l">>)))

\* the statements Union is called with
Members == {Sub1, Sub2, Sub3, Sub4, Delete("t"), Union(<<Sub2, Sub1>>)}

\* the statements a statement returned by Union was made of
UnionMembers(qq) == [i \in 1..Len(qq.clauses) |-> qq.clauses[i].q]

DoUnion ==
    /\ Len(q.clauses) < MaxMembers
    /\ \E m \in Members : q' = Union(Append(UnionMembers(q), m))
    /\ before' = q
    /\ last' = "Union"
    /\ texts' = <<>>
    /\ UNCHANGED notE

InitUnion ==
    /\ q \in {Union(<<m>>) : m \in Members}
    /\ before = q
    /\ last = "Union"
    /\ texts = <<>>
    /\ InitG0
    /\ InitB0
    /\ InitC0
    /\ InitF0

NextUnion ==
    \/ DoUnion
    \/ DoBuild

SpecUnion == InitUnion /\ [][NextUnion]_vars

(***************************************************************************)
(* Branches.  A base statement is built by a constructor, which applies    *)
(* its options one after the other (q = opt(q)); then options are applied  *)
(* to the base statement, each call being given the base statement and     *)
(* returning a statement of its own.  Every option appends to q.clauses    *)
(* and to q.args of the copy it was passed and returns the copy.           *)
(***************************************************************************)
\* a statement with no clause and no argument, with nil slices
OnHeap(v) ==
    [stmt |-> v.stmt, table |-> v.table, exprs |-> v.exprs,
     clauses |-> NilSlice, args |-> NilSlice]

\* the outcomes of an option applied to the statement s, v2 being the clauses
\* and arguments the option yields: the clauses and the arguments it adds
\* are appended to the slices of s
Applied(m, s, v2) ==
    LET v == View(m, s)
        addc == SubSeq(v2.clauses, Len(v.clauses) + 1, Len(v2.clauses))
        adda == SubSeq(v2.args, Len(v.args) + 1, Len(v2.args))
    IN  {[mem |-> [clauses |-> oc.arrays, args |-> oa.arrays],
          stmt |-> [s EXCEPT !.clauses = oc.slice, !.args = oa.slice]]
           : oc \in AppendToSlice(m.clauses, s.clauses, addc, NilClause),
             oa \in AppendToSlice(m.args, s.args, adda, 0)}

\* the options a statement is given, binding the value val
OptionsOn(v, val) ==
    { Where(NewCol(v), "=", Arg(val), v),
      From("t", v),
      Limit(val, v),
      Values(<<val>>, v) }

\* the constructor applies one more option to the base statement
Extend ==
    /\ br.made = <<>>
    /\ br.base.clauses.len < MaxBase
    /\ \E v2 \in OptionsOn(View(mem, br.base), NewVal(View(mem, br.base))) :
         \E o \in Applied(mem, br.base, v2) :
            /\ mem' = o.mem
            /\ br' = [br EXCEPT !.base = o.stmt, !.want = v2]
    /\ UNCHANGED notB

\* an option is applied to the base statement and its result kept
Branch ==
    /\ Len(br.made) < MaxBranches
    /\ \E v2 \in OptionsOn(View(mem, br.base), 10 + Len(br.made) + 1) :
         \E o \in Applied(mem, br.base, v2) :
            /\ mem' = o.mem
            /\ br' = [br EXCEPT !.made = Append(@, [stmt |-> o.stmt, want |-> v2])]
    /\ UNCHANGED notB

InitBranch ==
    /\ q = Select(Columns(<<"*">>))
    /\ before = q
    /\ last = "new"
    /\ texts = <<>>
    /\ InitG0
    /\ InitC0
    /\ InitF0
    /\ mem = [clauses |-> <<>>, args |-> <<>>]
    /\ \E c \in {Select(Columns(<<"*">>)), Insert("t", Columns(<<"k", "l">>))} :
          br = [base |-> OnHeap(c), want |-> c, made |-> <<>>]

NextBranch ==
    \/ Extend
    \/ Branch

SpecBranch == InitBranch /\ [][NextBranch]_vars

(***************************************************************************)
(* One Columns option value, made from a column sequence the caller holds  *)
(* and applied to statements of the guarded option set, next to options    *)
(* built from empty and from non-empty value lists.                        *)
(***************************************************************************)
\* the column sequences Columns is called with
ColumnLists == {<<>>, <<"k">>, <<"k", "l">>, <<"k", "l", "m">>}

\* the option value is applied to the statement under construction or to a
\* new statement
OptColumns ==
    /\ ~failed
    /\ Len(colopt.results) < MaxApplied
    /\ \E target \in {g} \cup {GNew(s) : s \in GStmts} :
         LET r == GColumns(colopt.array, target)
         IN  /\ Len(target.clauses) < MaxGClauses
             /\ failed' = r.panic
             /\ g' = r.g
             /\ gbefore' = target
             /\ glast' = [op |-> "Columns", stmt |-> target.stmt]
             /\ colopt' = [colopt EXCEPT
                             !.array = r.array,
                             !.results = IF r.panic THEN @
                                         ELSE Append(@, [stmt |-> target.stmt,
                                                         items |-> r.array])]
    /\ UNCHANGED notC

\* Values() with no value
OptValuesNone == ~failed /\ GApply("Values", GValues(<<>>, g))

\* Where and OrWhere, with and without values
OptWhereAny == ~failed /\ (OptWhere \/ OptOrWhere)

InitColumns ==
    /\ q = Select(Columns(<<"*">>))
    /\ before = q
    /\ last = "new"
    /\ texts = <<>>
    /\ g \in {GNew(s) : s \in GStmts}
    /\ gbefore = g
    /\ glast = [op |-> "new", stmt |-> g.stmt]
    /\ InitB0
    /\ InitF0
    /\ \E cs \in ColumnLists : colopt = [given |-> cs, array |-> cs, results |-> <<>>]
    /\ failed = FALSE

NextColumns ==
    \/ OptColumns
    \/ OptValuesNone
    \/ OptWhereAny

SpecColumns == InitColumns /\ [][NextColumns]_vars

(***************************************************************************)
(* The field-based builder.  A constructor has applied Table, Columns and   *)
(* the other options that set a field; the options that add a predicate or *)
(* a SET item are applied one after the other, and then Build() is called  *)
(* on the Query, which is held in a variable (Build has a pointer          *)
(* receiver).                                                              *)
(***************************************************************************)
\* SELECT id FROM users WHERE username = $1, binding 9
FSub == FWhereEq("username", 9, FTable("users", FColumns(<<"id">>, FNew(Fselect))))

\* the statements the constructors return for options that set a field
FConstructed ==
    { FTable("t", FColumns(<<"*">>, FNew(Fselect))),
      FOffset(2, FLimit(5, FOrderDesc(<<"c">>,
          FTable("t", FColumns(<<"*">>, FNew(Fselect)))))),
      FReturning(<<"id">>, FValues(<<1, 2>>,
          FTable("t", FColumns(<<"k", "l">>, FNew(Finsert))))),
      FReturning(<<"id">>, FTable("t", FNew(Fupdate))),
      FLimit(5, FTable("t", FNew(Fdelete))) }

\* the column of the next predicate or SET item
FNewCol(qq) == ColumnNames[Len(qq.wheres) + Len(qq.sets) + 1]

\* the option lists Or is called with
OrLists(qq) ==
    { <<[name |-> "WhereEq", col |-> FNewCol(qq), val |-> NewVal(qq)]>>,
      <<[name |-> "WhereEq", col |-> FNewCol(qq), val |-> NewVal(qq)],
        [name |-> "WhereIs", col |-> "z", val |-> 0]>> }

\* an option has been applied to f, giving f2
FApply(f2) ==
    /\ ftexts = <<>>
    /\ ~fhung
    /\ Len(f2.wheres) <= MaxFWheres
    /\ Len(f2.sets) <= MaxFSets
    /\ Len(f2.args) <= MaxFArgs
    /\ f2 # f
    /\ f' = f2
    /\ UNCHANGED <<ftexts, fhung>>
    /\ UNCHANGED notF

FieldWhereEq == FApply(FWhereEq(FNewCol(f), NewVal(f), f))

FieldWhereIs == FApply(FWhereIs(FNewCol(f), 0, f))

FieldWhereIn ==
    \E vals \in {<<NewVal(f)>>, <<NewVal(f), NewVal(f) + 1>>} :
        FApply(FWhereIn(FNewCol(f), vals, f))

FieldWhereInQuery == FApply(FWhereInQuery(FNewCol(f), FSub, f))

FieldOr == \E opts \in OrLists(f) : FApply(FOr(opts, f))

FieldSet == FApply(FSet(FNewCol(f), NewVal(f), f))

FieldSetRaw == FApply(FSetRaw(FNewCol(f), RawVal(<<"NOW()">>), f))

\* f.Build() is called: it returns a text and leaves its count in f.bind, or
\* never returns
FieldBuild ==
    /\ ~fhung
    /\ Len(ftexts) < MaxFBuilds
    /\ LET r == FBuild(f)
       IN  /\ fhung' = r.hangs
           /\ ftexts' = IF r.hangs THEN ftexts ELSE Append(ftexts, r.text)
           /\ f' = IF r.hangs THEN f ELSE [f EXCEPT !.bind = r.bind]
    /\ UNCHANGED notF

InitField ==
    /\ q = Select(Columns(<<"*">>))
    /\ before = q
    /\ last = "new"
    /\ texts = <<>>
    /\ InitG0
    /\ InitB0
    /\ InitC0
    /\ f \in FConstructed
    /\ ftexts = <<>>
    /\ fhung = FALSE

NextField ==
    \/ FieldWhereEq
    \/ FieldWhereIs
    \/ FieldWhereIn
    \/ FieldWhereInQuery
    \/ FieldOr
    \/ FieldSet
    \/ FieldSetRaw
    \/ FieldBuild

SpecField == InitField /\ [][NextField]_vars

(***************************************************************************)
(* Text that is not a parameter.  Where is called with an operator that is *)
(* a question mark (the key-exists operator of jsonb) or with a literal    *)
(* expression that holds one, Set with such a literal; a text is a token   *)
(* sequence in which each "?" character is a token of its own, as it is    *)
(* for the placeholders.                                                   *)
(***************************************************************************)
\* tags ? 'go', as a literal expression
KeyExists == Lit(<<"tags ", "?", " 'go'">>)

LiteralOperator == Apply("Where", Where(NewCol(q), "?", Arg(NewVal(q)), q))

LiteralWhere == Apply("Where", Where(NewCol(q), "=", KeyExists, q))

LiteralSet == Apply("Set", Set(NewCol(q), KeyExists, q))

InitLiteral ==
    /\ q \in {Select(Columns(<<"*">>)), Update("t"), Delete("t")}
    /\ before = q
    /\ last = "new"
    /\ texts = <<>>
    /\ InitG0
    /\ InitB0
    /\ InitC0
    /\ InitF0

NextLiteral ==
    \/ LiteralOperator
    \/ LiteralWhere
    \/ LiteralSet
    \/ DoWhere
    \/ DoSet
    \/ DoFrom
    \/ DoBuild

SpecLiteral == InitLiteral /\ [][NextLiteral]_vars

(***************************************************************************)
(* Properties.                                                             *)
(***************************************************************************)
\* the markers "$1", "$2", ...: more than any text of the model holds
Markers == {Marker(k) : k \in 1..64}

\* whether a token is a marker "$n"
IsMarker(tok) == tok \in Markers

\* the markers of a text, in the order they occur
MarkersOf(s) == SelectSeq(s, IsMarker)

\* the number of placeholders among the first i tokens of s
Placeholders(s, i) == Cardinality({j \in 1..i : s[j] = "?"})

\* whether p is a prefix of s
IsPrefix(p, s) == Len(p) <= Len(s) /\ SubSeq(s, 1, Len(p)) = p

\* whether the text t sits in s from position pos on
SitsAt(t, s, pos) == pos + Len(t) - 1 <= Len(s) /\ SubSeq(s, pos, pos + Len(t) - 1) = t

\* the position in buildInitial's text where iteration i starts writing
StartOf(qq, i) == Len(BufAfter(qq, i - 1)) + 1

\* C1: the number of "$n" markers in Build()'s text equals len(Args())
C1_MarkersMatchArgs == Len(MarkersOf(Build(q))) = Len(Args(q))

\* C2: the value bound to the k-th placeholder of the text is the k-th
\* element of Args()
C2_ArgsInPlaceholderOrder == Args(q) = Marks(q)

\* C3: Build replaces the k-th "?" of buildInitial's text by "$k" and changes
\* nothing else, so that its text holds exactly the markers $1..$n, each
\* once and in increasing order, none of them written by a nested render
C3_NumberedOnceByOutermost ==
    LET s == buildInitial(q)
        out == Build(q)
        n == Placeholders(s, Len(s))
    IN  /\ Len(out) = Len(s)
        /\ \A i \in 1..Len(s) :
              out[i] = IF s[i] = "?" THEN Marker(Placeholders(s, i)) ELSE s[i]
        /\ MarkersOf(out) = [k \in 1..n |-> Marker(k)]

FirstWhere(qq) ==
    IF \E i \in 1..Len(qq.clauses) : qq.clauses[i].kind = WhereKind
      THEN CHOOSE i \in 1..Len(qq.clauses) :
              /\ qq.clauses[i].kind = WhereKind
              /\ \A j \in 1..(i - 1) : qq.clauses[j].kind # WhereKind
      ELSE 0

\* the index of the last clause of the run of WHERE clauses starting at i
RunEnd(qq, i) ==
    CHOOSE j \in i..Len(qq.clauses) :
        /\ \A k \in i..j : qq.clauses[k].kind = WhereKind
        /\ j = Len(qq.clauses) \/ qq.clauses[j + 1].kind # WhereKind

\* the first run of WHERE clauses of a statement
FirstRun(qq) ==
    IF FirstWhere(qq) = 0 THEN <<>>
    ELSE SubSeq(qq.clauses, FirstWhere(qq), RunEnd(qq, FirstWhere(qq)))

\* the separator written between ws[i] and ws[i+1], as C5 states it
SeparatorAfter(ws, i) ==
    LET c == " " \o ws[i + 1].conjunction \o " "
    IN  IF i > 1 /\ ws[i + 1].conjunction # ws[i].conjunction
          THEN <<")", c, "(">>
          ELSE <<c>>

\* the text of a run of WHERE clauses, as C5 states it
RunText(ws) ==
    <<"WHERE ", "(">>
    \o Flatten([i \in 1..Len(ws) |->
                  ClauseBuild(ws[i])
                  \o (IF i < Len(ws) THEN SeparatorAfter(ws, i) ELSE <<>>)])
    \o <<")">>

\* DELETE FROM t with Where(a), OrWhere(b), Where(c)
ChainAndOrAnd ==
    Where("c", "=", Arg(3),
          OrWhere("b", "=", Arg(2), Where("a", "=", Arg(1), Delete("t"))))

\* DELETE FROM t with Where(a), OrWhere(b), OrWhere(c)
ChainAndOrOr ==
    OrWhere("c", "=", Arg(3),
            OrWhere("b", "=", Arg(2), Where("a", "=", Arg(1), Delete("t"))))

\* C5: the first run of WHERE clauses w1..wn is written as "WHERE (" w1 ... wn
\* ")", the separator before wi+1 being its conjunction, written as
\* ") conj (" exactly when wi has a preceding WHERE clause and the
\* conjunction of wi+1 differs from that of wi
C5_WhereRunText ==
    /\ FirstWhere(q) # 0 =>
          IsPrefix(BufAfter(q, FirstWhere(q) - 1) \o RunText(FirstRun(q)),
                   buildInitial(q))
    /\ q = ChainAndOrAnd =>
          Str(buildInitial(q)) = "DELETE FROM t WHERE (a = ? OR b = ?) AND (c = ?)"
    /\ q = ChainAndOrOr =>
          Str(buildInitial(q)) = "DELETE FROM t WHERE (a = ? OR b = ? OR c = ?)"

\* a run of three WHERE clauses after a FROM clause, with a switch of
\* conjunction after the second
C5_Witness ==
    /\ Len(q.clauses) >= 4
    /\ q.clauses[1].kind = FromKind
    /\ Len(FirstRun(q)) >= 3
    /\ FirstRun(q)[2].conjunction # FirstRun(q)[3].conjunction

(***************************************************************************)
(* The truth value of a rendered WHERE group.  The text is read as SQL     *)
(* reads it: parentheses first, AND binding tighter than OR.  A predicate  *)
(* is named by its column, and asg gives each column's predicate a truth   *)
(* value.                                                                  *)
(***************************************************************************)
\* the parentheses, the conjunctions and the predicates (by column) of a text
RECURSIVE Logic(_)
Logic(s) ==
    IF s = <<>> THEN <<>>
    ELSE (IF Head(s) \in {"(", ")", " AND ", " OR "}
             \/ \E i \in 1..Len(ColumnNames) : Head(s) = ColumnNames[i]
            THEN <<Head(s)>>
            ELSE <<>>)
         \o Logic(Tail(s))

RECURSIVE ParseOr(_, _)
RECURSIVE ParseAnd(_, _)
\* a predicate or a parenthesised expression at the head of t
ParseAtom(t, asg) ==
    IF Head(t) = "("
      THEN LET r == ParseOr(Tail(t), asg)
           IN  [val |-> r.val, rest |-> Tail(r.rest)]
      ELSE [val |-> asg[Head(t)], rest |-> Tail(t)]

\* atoms joined by AND
ParseAnd(t, asg) ==
    LET a == ParseAtom(t, asg)
    IN  IF a.rest # <<>> /\ Head(a.rest) = " AND "
          THEN LET b == ParseAnd(Tail(a.rest), asg)
               IN  [val |-> a.val /\ b.val, rest |-> b.rest]
          ELSE a

\* AND-terms joined by OR
ParseOr(t, asg) ==
    LET a == ParseAnd(t, asg)
    IN  IF a.rest # <<>> /\ Head(a.rest) = " OR "
          THEN LET b == ParseOr(Tail(a.rest), asg)
               IN  [val |-> a.val \/ b.val, rest |-> b.rest]
          ELSE a

\* the value of a text under SQL precedence
SqlValue(s, asg) == ParseOr(Logic(s), asg).val

\* the column of a WHERE clause
ColumnOf(w) == w.left.text[1]

RECURSIVE LeftToRight(_, _, _)
\* the value of (((p1 c2 p2) c3 p3) ... cn pn), for the first n clauses of ws
LeftToRight(ws, n, asg) ==
    IF n = 1 THEN asg[ColumnOf(ws[1])]
    ELSE IF ws[n].conjunction = "AND"
           THEN LeftToRight(ws, n - 1, asg) /\ asg[ColumnOf(ws[n])]
           ELSE LeftToRight(ws, n - 1, asg) \/ asg[ColumnOf(ws[n])]

\* the text the engine writes between the keyword WHERE and the end of the
\* first run of WHERE clauses
WhereText(qq) ==
    LET i == FirstWhere(qq)
        j == RunEnd(qq, i)
        s == BufAfter(qq, j)
    IN  SubSeq(s, StartOf(qq, i) + 1,
               Len(s) - (IF j < Len(qq.clauses) THEN 1 ELSE 0))

\* the truth assignments to the predicates of a run
Assignments(ws) == [{ColumnOf(ws[i]) : i \in 1..Len(ws)} -> BOOLEAN]

\* whether the rendered text of the first run has the value of the
\* left-to-right grouping under every truth assignment
GroupsLeftToRight(qq) ==
    LET ws == FirstRun(qq)
    IN  \A asg \in Assignments(ws) :
            SqlValue(WhereText(qq), asg) = LeftToRight(ws, Len(ws), asg)

\* whether the conjunctions c2..cn of a run hold an AND, a later OR and a
\* still later AND
AndOrAnd(ws) ==
    \E i, j, k \in 2..Len(ws) :
        /\ i < j
        /\ j < k
        /\ ws[i].conjunction = "AND"
        /\ ws[j].conjunction = "OR"
        /\ ws[k].conjunction = "AND"

\* C6 as stated: the rendered WHERE text of every chain of Where and OrWhere
\* has, under every truth assignment, the value of the left-to-right grouping
C6_LeftToRightGrouping == FirstWhere(q) # 0 => GroupsLeftToRight(q)

\* C6 as amended: the rendered WHERE text has the value of the left-to-right
\* grouping for exactly the chains whose conjunctions c2..cn do not hold an
\* AND, a later OR and a still later AND
C6_LeftToRightUnlessAndOrAnd ==
    FirstWhere(q) # 0 => (GroupsLeftToRight(q) <=> ~AndOrAnd(FirstRun(q)))

\* a chain of four predicates that switches conjunction twice and is grouped
\* left to right
C6_Witness ==
    /\ Len(FirstRun(q)) = 4
    /\ FirstRun(q)[2].conjunction = "OR"
    /\ FirstRun(q)[3].conjunction = "AND"
    /\ FirstRun(q)[4].conjunction = "OR"
    /\ GroupsLeftToRight(q)

\* the keyword of a kind, as the engine writes it
Keyword(kind) == kind \o " "

\* the number of times a token occurs in the texts that the leading
\* expressions and the clauses of a statement render themselves
NestedCount(qq, tok) ==
    Count(Header(qq), {tok})
    + Len(Flatten([i \in 1..Len(qq.clauses) |->
                     SelectSeq(ClauseBuild(qq.clauses[i]), LAMBDA t : t = tok)]))

\* whether clause i is the first clause of its kind in the list
FirstOfKind(qq, i) ==
    \A j \in 1..(i - 1) : qq.clauses[j].kind # qq.clauses[i].kind

\* the kinds of the clauses of a statement
KindsOf(qq) == {qq.clauses[i].kind : i \in 1..Len(qq.clauses)}

\* C7: in one pass of buildInitial the keyword of every kind other than
\* UNION that occurs in the clause list is written exactly once, immediately
\* before the first clause of that kind, and a UNION member writes no keyword
C7_KeywordOncePerKind ==
    LET s == buildInitial(q)
    IN  /\ \A i \in 1..Len(q.clauses) :
              LET cl == q.clauses[i]
                  pos == StartOf(q, i)
                  paren == IF cl.kind = WhereKind THEN 1 ELSE 0
              IN  IF cl.kind # UnionKind /\ FirstOfKind(q, i)
                    THEN /\ s[pos] = Keyword(cl.kind)
                         /\ SitsAt(ClauseBuild(cl), s, pos + 1 + paren)
                    ELSE SitsAt(ClauseBuild(cl), s, pos)
        /\ \A kind \in KindsOf(q) :
              Count(s, {Keyword(kind)})
                = NestedCount(q, Keyword(kind)) + (IF kind = UnionKind THEN 0 ELSE 1)

\* a statement with two clauses of one kind, a clause of another kind, and a
\* text written
C7_Witness ==
    /\ Len(q.clauses) = 3
    /\ \E i, j \in 1..3 : i < j /\ q.clauses[i].kind = q.clauses[j].kind
                           /\ q.clauses[i].kind # UnionKind
    /\ Cardinality(KindsOf(q)) = 2
    /\ last = "Build"

\* C8: in the rendered text the clauses of one kind are contiguous, whatever
\* the order the options were applied in: no clause of another kind is
\* written between two clauses of the same kind
C8_KindsContiguous ==
    \A i, j, k \in 1..Len(q.clauses) :
        /\ StartOf(q, i) < StartOf(q, j)
        /\ StartOf(q, j) < StartOf(q, k)
        /\ q.clauses[i].kind = q.clauses[k].kind
        => q.clauses[j].kind = q.clauses[i].kind

\* C9: From on an INSERT or UPDATE statement, and Into on a SELECT, UPDATE or
\* DELETE statement, return a statement with the clause list and the
\* argument list of the input
C9_FromIntoNoOp ==
    /\ glast.op = "From" /\ glast.stmt \in {insertStmt, updateStmt}
          => g.clauses = gbefore.clauses /\ g.args = gbefore.args
    /\ glast.op = "Into" /\ glast.stmt \in {selectStmt, updateStmt, deleteStmt}
          => g.clauses = gbefore.clauses /\ g.args = gbefore.args

\* From has been applied to an INSERT statement that holds a clause and an
\* argument
C9_Witness ==
    /\ glast.op = "From"
    /\ glast.stmt = insertStmt
    /\ gbefore.clauses # <<>>
    /\ gbefore.args # <<>>

\* C10: Set and SetRaw on a SELECT, INSERT or DELETE statement return a
\* statement with the clause list and the argument list of the input
C10_SetNoOpOutsideUpdate ==
    glast.op \in {"Set", "SetRaw"} /\ glast.stmt \in {selectStmt, insertStmt, deleteStmt}
        => g.clauses = gbefore.clauses /\ g.args = gbefore.args

\* C11: the arguments of Union(q1..qn) are the arguments of q1..qn in that
\* order, and its unnumbered text is the unnumbered texts of q1..qn joined by
\* " UNION ", with no leading keyword and no parentheses added
C11_UnionConcatenates ==
    LET ms == UnionMembers(q)
        n == Len(ms)
    IN  /\ Args(q) = Flatten([i \in 1..n |-> Args(ms[i])])
        /\ Str(buildInitial(q))
             = Str(Flatten([i \in 1..n |->
                              buildInitial(ms[i])
                              \o (IF i < n THEN <<" UNION ">> ELSE <<>>)]))

\* Union has been called with three statements, the first and the last
\* binding different arguments
C11_Witness ==
    /\ last = "Union"
    /\ Len(q.clauses) = 3
    /\ Args(q.clauses[1].q) # <<>>
    /\ Args(q.clauses[3].q) # <<>>
    /\ Args(q.clauses[1].q) # Args(q.clauses[3].q)

\* whether the last operation was Where or OrWhere with the statement sub as
\* right-hand expression
WhereWithQuery(sub) ==
    /\ last \in {"Where", "OrWhere"}
    /\ q.clauses = Append(before.clauses, q.clauses[Len(q.clauses)])
    /\ q.clauses[Len(q.clauses)].right = Lit(<<"(">> \o buildInitial(sub) \o <<")">>)

\* C12: Where or OrWhere with a statement q2 as right-hand expression, applied
\* to q1, yields the arguments of q1 followed by those of q2, a predicate
\* rendered as col op (T) with T the unnumbered text of q2, and Build numbers
\* the placeholders of q2 from len(q1.Args()) + 1 onward, in order
C12_NestedStatementImported ==
    WhereWithQuery(Sub1) =>
        LET n == Len(q.clauses)
            cl == q.clauses[n]
            out == Build(q)
        IN  /\ Args(q) = Args(before) \o Args(Sub1)
            /\ Str(ClauseBuild(cl))
                 = ColumnOf(cl) \o " " \o cl.op \o " (" \o Str(buildInitial(Sub1)) \o ")"
            /\ MarkersOf(SubSeq(out, StartOf(q, n), Len(out)))
                 = [k \in 1..Len(Args(Sub1)) |-> Marker(Len(Args(before)) + k)]

\* C13: Where and OrWhere of the guarded option set, called with n >= 1
\* values, render the value as a parenthesised comma list of n placeholders
\* when n > 1 or the operator is "IN" and as a bare "?" otherwise, and append
\* exactly the n values to the arguments, in order
C13_ValueListExpanded ==
    glast.op \in {"Where", "OrWhere"} /\ Len(g.clauses) = Len(gbefore.clauses) + 1 =>
        LET n == Len(g.args) - Len(gbefore.args)
            cl == g.clauses[Len(g.clauses)]
        IN  /\ n >= 1
            /\ g.args = gbefore.args \o [k \in 1..n |-> NewVal(gbefore) + k - 1]
            /\ cl.val = IF n > 1 \/ cl.op = "IN"
                          THEN <<"(">> \o Join([k \in 1..n |-> "?"], ", ") \o <<")">>
                          ELSE <<"?">>

\* the index of the first clause of a kind in a statement (0: none)
FirstOf(qq, kind) ==
    IF \E i \in 1..Len(qq.clauses) : qq.clauses[i].kind = kind
      THEN CHOOSE i \in 1..Len(qq.clauses) :
              /\ qq.clauses[i].kind = kind
              /\ \A j \in 1..(i - 1) : qq.clauses[j].kind # kind
      ELSE 0

\* the first run of consecutive clauses of a kind in a statement
FirstRunOf(qq, kind) ==
    LET i == FirstOf(qq, kind)
        j == CHOOSE j \in i..Len(qq.clauses) :
                /\ \A k \in i..j : qq.clauses[k].kind = kind
                /\ j = Len(qq.clauses) \/ qq.clauses[j + 1].kind # kind
    IN  IF i = 0 THEN <<>> ELSE SubSeq(qq.clauses, i, j)

\* the keyword of a kind once, then the groups of a run separated by ", "
CommaGroups(kind, run) ==
    <<Keyword(kind)>>
    \o Flatten([i \in 1..Len(run) |->
                  ClauseBuild(run[i]) \o (IF i < Len(run) THEN <<", ">> ELSE <<>>)])

\* whether the first run of clauses of a kind is written as the keyword once
\* and the groups in call order separated by ", "
WrittenAsCommaGroups(qq, kind) ==
    LET t == CommaGroups(kind, FirstRunOf(qq, kind))
        s == buildInitial(qq)
        pos == StartOf(qq, FirstOf(qq, kind))
    IN  /\ pos + Len(t) - 1 <= Len(s)
        /\ Str(SubSeq(s, pos, pos + Len(t) - 1)) = Str(t)

\* C14: consecutive OrderAsc and OrderDesc options render as
\* "ORDER BY g1, g2, ..., gk": the keyword once and the ordering groups in
\* call order separated by ", "
C14_OrderGroupsCommaJoined ==
    FirstOf(q, OrderKind) # 0 => WrittenAsCommaGroups(q, OrderKind)

\* the values bound by the clauses of a sequence, in order
BoundBy(cls) == Flatten([i \in 1..Len(cls) |-> cls[i].bound])

\* C15: consecutive Values options on an INSERT render as
\* "VALUES (g1), (g2), ..., (gk)": the keyword once, each group a
\* parenthesised list of one placeholder per value, the groups separated by
\* ", "; the values of all groups are in Args() in call order and Build
\* numbers their placeholders consecutively across the groups
C15_ValuesGroupsCommaJoined ==
    q.stmt = StmtInsert /\ FirstOf(q, ValuesKind) # 0 =>
        LET i == FirstOf(q, ValuesKind)
            run == FirstRunOf(q, ValuesKind)
            j == i + Len(run) - 1
            p == Len(BoundBy(SubSeq(q.clauses, 1, i - 1)))
            m == Len(BoundBy(run))
            out == Build(q)
        IN  /\ WrittenAsCommaGroups(q, ValuesKind)
            /\ \A k \in 1..Len(run) :
                  ClauseBuild(run[k])
                    = <<"(">> \o Join([v \in 1..Len(run[k].args) |-> "?"], ", ") \o <<")">>
            /\ SubSeq(Args(q), p + 1, p + m)
                 = Flatten([k \in 1..Len(run) |-> run[k].args])
            /\ MarkersOf(SubSeq(out, StartOf(q, i), Len(BufAfter(q, j))))
                 = [k \in 1..m |-> Marker(p + k)]

\* two Values options have been applied one after the other to an INSERT
\* that binds nothing else, and the text has been built
C15_Witness ==
    /\ q.stmt = StmtInsert
    /\ Len(q.clauses) >= 2
    /\ q.clauses[1].kind = ValuesKind
    /\ q.clauses[2].kind = ValuesKind
    /\ last = "Build"
    /\ Len(MarkersOf(texts[1])) = 4

\* the kinds of clause.go
Kinds ==
    {FromKind, LimitKind, OffsetKind, OrderKind, UnionKind, ValuesKind,
     WhereKind, ReturningKind, SetKind}

\* the strings the engine and the clauses write that begin with a space
BeginWithSpace == {" ", " INTO ", " FROM ", " AND ", " OR ", " UNION ", " = "}

\* the strings the engine and the clauses write that end with a space
EndWithSpace == BeginWithSpace \cup {", "} \cup {Keyword(kind) : kind \in Kinds}

\* the strings of a text that are not empty
NonEmpty(s) == SelectSeq(s, LAMBDA t : t # "")

\* C16: the text returned by Build() has no leading and no trailing
\* whitespace, also for a statement built with no options at all
C16_NoOuterWhitespace ==
    LET s == NonEmpty(Build(q))
    IN  s # <<>> => Head(s) \notin BeginWithSpace /\ s[Len(s)] \notin EndWithSpace

\* C17: options applied to one base statement leave the base statement as it
\* was and give each result the clauses, the arguments and the text it had
\* when it was returned, whatever is applied to the base statement afterwards
C17_BranchesIndependent ==
    /\ View(mem, br.base) = br.want
    /\ \A i \in 1..Len(br.made) :
          /\ View(mem, br.made[i].stmt) = br.made[i].want
          /\ Build(View(mem, br.made[i].stmt)) = Build(br.made[i].want)

\* C18: applying an option, built from any argument list including an empty
\* one, to a statement of any kind returns a statement and raises no runtime
\* failure
C18_NoFailureAtConstruction == ~failed

\* C19: a Columns option value applied to two INSERT statements produces the
\* same column-list items in both, leaves the caller's column sequence as it
\* was, and its second application adds nothing to what the first wrote
C19_ColumnsPure ==
    /\ colopt.array = colopt.given
    /\ \A i, j \in 1..Len(colopt.results) :
          colopt.results[i].stmt = insertStmt /\ colopt.results[j].stmt = insertStmt
            => colopt.results[i].items = colopt.results[j].items

\* C20: in the field-based builder every Build() call on one Query returns
\* the same text: a second call numbers its placeholders from $1 again
C20_FieldBuildIdempotent ==
    \A i, j \in 1..Len(ftexts) : ftexts[i] = ftexts[j]

\* the options that add a predicate: n is the number of values given
PredicateOptions ==
    { [name |-> "WhereEq", n |-> 1], [name |-> "WhereIs", n |-> 0],
      [name |-> "WhereIn", n |-> 1], [name |-> "WhereIn", n |-> 2],
      [name |-> "WhereInQuery", n |-> 1] }

\* the option o as it is applied to qq: the column and the values are new
OptionOn(o, qq) ==
    [name |-> o.name, col |-> FNewCol(qq), val |-> IF o.name = "WhereIs" THEN 0 ELSE NewVal(qq),
     vals |-> [j \in 1..o.n |-> NewVal(qq) + j - 1], query |-> FSub]

RECURSIVE Replay(_, _)
\* the Query that the options os, applied in order, make of qq
Replay(os, qq) ==
    IF os = <<>> THEN qq ELSE Replay(Tail(os), FOpt(OptionOn(Head(os), qq), qq))

\* the number of markers among the first i tokens of s
MarkersBefore(s, i) == Cardinality({j \in 1..i : IsMarker(s[j])})

\* whether the predicate on col is written in text as "col IN ($k+1, ..., $k+n)",
\* k being the number of markers written before it
InRendered(text, col, n) ==
    LET p == Index(text, col)
        k == IF p = 0 THEN 0 ELSE MarkersBefore(text, p - 1)
    IN  /\ p > 0
        /\ SitsAt(<<col, " ", "IN", " ", "(">>
                  \o Join([j \in 1..n |-> Param(k + j)], ", ") \o <<")">>, text, p)

\* whether the predicate on col, with operator op, is written with the
\* single marker "$m"
NumberedAs(text, col, op, m) ==
    LET p == Index(text, col)
    IN  p > 0 /\ SitsAt(<<col, " ", op, " ", Param(m)>>, text, p)

\* the option lists that make f of a constructed statement
HistoriesOf(qq) ==
    { os \in [1..Len(qq.wheres) -> PredicateOptions] :
        \E c \in FConstructed : c.stmt # Finsert /\ Replay(os, c) = [qq EXCEPT !.bind = 0] }

\* C21: in the field-based builder WhereIn(col, v1..vn) is written as
\* "col IN ($k+1, ..., $k+n)", k being the number of placeholders written
\* before it, whatever predicates precede or follow it, and a WhereEq or
\* WhereIs added right after it is numbered $k+n+1
C21_WhereInOwnPlaceholders ==
    ftexts # <<>> =>
      \A os \in HistoriesOf(f) : \A i \in 1..Len(os) :
         os[i].name = "WhereIn" =>
           /\ InRendered(ftexts[1], f.wheres[i].col, os[i].n)
           /\ i < Len(os) /\ os[i + 1].name \in {"WhereEq", "WhereIs"} =>
                NumberedAs(ftexts[1], f.wheres[i + 1].col, f.wheres[i + 1].op,
                           MarkersBefore(ftexts[1], Index(ftexts[1], f.wheres[i].col)) + os[i].n + 1)

\* C22: in the field-based builder Or(opts...) gives the conjunction OR to
\* every predicate its options add and leaves every earlier predicate as it
\* was, however many predicates there were and however many are added
C22_OrMarksOnlyAdded ==
    [][FieldOr =>
         /\ Len(f'.wheres) > Len(f.wheres)
         /\ \A i \in 1..Len(f'.wheres) :
               IF i <= Len(f.wheres) THEN f'.wheres[i] = f.wheres[i]
               ELSE f'.wheres[i].cat = " OR "]_vars

\* C23: in the option set of clause.go, From on an INSERT or UPDATE statement
\* and Returning on a SELECT statement return a statement with the clause
\* list of the input, which renders the same text
C23_FromReturningNoOp ==
    \/ /\ last = "From"
       /\ before.stmt \in {StmtInsert, StmtUpdate}
    \/ /\ last = "Returning"
       /\ before.stmt = StmtSelect
    => /\ q.clauses = before.clauses
       /\ Str(Build(q)) = Str(Build(before))

\* C24: in the field-based builder every Build() call returns, the first
\* and every repeated one: the loop that writes the placeholders of an IN
\* predicate reaches its exit
C24_BuildReturns == ~fhung

\* what iteration i of buildInitial's loop writes besides the text of the
\* clause itself
WrittenAround(qq, i) ==
    LET it == Iteration(qq, i, KindsWritten(qq, i - 1))
        cb == ClauseBuild(qq.clauses[i])
        p == CHOOSE k \in 1..Len(it) :
                 /\ SitsAt(cb, it, k)
                 /\ \A j \in 1..(k - 1) : ~SitsAt(cb, it, j)
    IN  SubSeq(it, 1, p - 1) \o SubSeq(it, p + Len(cb), Len(it))

\* the parentheses the loop of buildInitial writes, in the order written
OwnParentheses(qq) ==
    LET all == Flatten([i \in 1..Len(qq.clauses) |-> WrittenAround(qq, i)])
    IN  SelectSeq(all, LAMBDA tok : tok \in {"(", ")"})

\* whether, reading ps left to right, the count of ")" never exceeds the
\* count of "(" and the two are equal at the end
Balanced(ps) ==
    /\ \A n \in 1..Len(ps) :
          Cardinality({j \in 1..n : ps[j] = ")"}) <= Cardinality({j \in 1..n : ps[j] = "("})
    /\ Cardinality({j \in 1..Len(ps) : ps[j] = ")"})
         = Cardinality({j \in 1..Len(ps) : ps[j] = "("})

\* C25: for every clause list, the WHERE clauses adjacent or not, the
\* parentheses that buildInitial itself writes are balanced
C25_OwnParenthesesBalanced == Balanced(OwnParentheses(q))

\* the statement with OrWhere in the place of Where, or Where in the place
\* of OrWhere, at its first WHERE clause: realWhere gives the two the same
\* clause but for the conjunction
FirstWhereSwapped(qq) ==
    [qq EXCEPT !.clauses[FirstWhere(qq)].conjunction =
                  IF @ = "AND" THEN "OR" ELSE "AND"]

\* C26: the conjunction of the first WHERE clause of a statement is not
\* seen in the text: with OrWhere in the place of Where at the first WHERE
\* clause, and every other option kept, Build() returns the same text
C26_FirstConjunctionUnseen ==
    FirstWhere(q) # 0 => Build(FirstWhereSwapped(q)) = Build(q)

\* the first WHERE clause comes from OrWhere and is followed by a Where and
\* an OrWhere, so that parentheses are written at the switch of conjunction
C26_Witness ==
    /\ Len(FirstRun(q)) >= 3
    /\ FirstRun(q)[1].conjunction = "OR"
    /\ FirstRun(q)[2].conjunction = "AND"
    /\ FirstRun(q)[3].conjunction = "OR"
    /\ Index(buildInitial(q), ")") < Index(buildInitial(q), " OR ")

\* a token that stands for a "?" which is not a placeholder
NotAPlaceholder == "{?}"

\* the text toks with the stand-in for each "?", and back
Hidden(toks) == [i \in 1..Len(toks) |-> IF toks[i] = "?" THEN NotAPlaceholder ELSE toks[i]]

Shown(toks) == [i \in 1..Len(toks) |-> IF toks[i] = NotAPlaceholder THEN "?" ELSE toks[i]]

\* the clause cl with the stand-in for every "?" that no argument was bound
\* to: those of a WHERE clause's column and operator, and those of an
\* expression that bound nothing
HiddenIn(cl) ==
    CASE cl.kind = WhereKind ->
           [cl EXCEPT !.op = IF @ = "?" THEN NotAPlaceholder ELSE @,
                      !.left.text = Hidden(@),
                      !.right.text = IF cl.bound = <<>> THEN Hidden(@) ELSE @]
      [] cl.kind = SetKind ->
           [cl EXCEPT !.expr.text = IF cl.bound = <<>> THEN Hidden(@) ELSE @]
      [] OTHER -> cl

\* Build()'s text if it numbered only the placeholders of bound arguments
NumberedWhereBound(qq) ==
    Shown(Build([qq EXCEPT !.clauses = [i \in 1..Len(@) |-> HiddenIn(@[i])]]))

\* C27: Build numbers only the placeholders that bound arguments wrote: a
\* "?" of an operator, an identifier or a literal expression is in Build()'s
\* text as it was given, and takes no parameter number
C27_OnlyBoundPlaceholdersNumbered ==
    last = "Build" => texts[Len(texts)] = NumberedWhereBound(q)

=============================================================================
